---- MODULE Spec2Model ----
(***************************************************************************)
(* Model of the persistence layer of app.py (the RMB counter): the        *)
(* identity normaliser, the table codec, the atomic file writer, the      *)
(* flock-based lock and the store operations built from them, run by      *)
(* several sessions that share one data file.                             *)
(*                                                                         *)
(* A name is a sequence of characters, a durable file is an inode holding *)
(* a JSON document, and every store operation is split at its system      *)
(* calls so that sessions interleave exactly where the program can.       *)
(***************************************************************************)
EXTENDS Integers, Sequences, FiniteSets, TLC

\* ------------------------------------------------------------------ bounds
\* Calls that all sessions together may start in one behaviour.
MaxCalls == 2
\* Calls of the single session of the serial specification.
MaxSeq == 2

\* ------------------------------------------------------------- identities
Procs == {"s1", "s2"}

Space == " "

IsSpace(c) == c = Space

\* str.casefold on the alphabet of the model.
Fold(c) == CASE c = "A" -> "a" [] c = "B" -> "b" [] OTHER -> c

\* str.split(): the maximal runs of non-whitespace characters of s, from
\* position i on, cur being the run collected so far.
RECURSIVE SplitFrom(_, _, _)
SplitFrom(s, i, cur) ==
  IF i > Len(s)
    THEN (IF cur = <<>> THEN <<>> ELSE <<cur>>)
    ELSE IF IsSpace(s[i])
      THEN (IF cur = <<>> THEN SplitFrom(s, i + 1, <<>>)
                          ELSE <<cur>> \o SplitFrom(s, i + 1, <<>>))
      ELSE SplitFrom(s, i + 1, Append(cur, s[i]))

Split(s) == SplitFrom(s, 1, <<>>)

\* " ".join(words)
RECURSIVE Join(_)
Join(words) ==
  IF words = <<>> THEN <<>>
  ELSE IF Len(words) = 1 THEN words[1]
  ELSE words[1] \o <<Space>> \o Join(Tail(words))

Casefold(s) == [i \in 1..Len(s) |-> Fold(s[i])]

\* A raw name is [isStr, chars]; the result is a sequence of characters,
\* <<>> being the empty string.
normalize_username_nofold(username) ==
  IF ~username.isStr THEN <<>> ELSE Join(Split(username.chars))

normalize_username(username) ==
  IF ~username.isStr THEN <<>> ELSE Casefold(Join(Split(username.chars)))

Str(cs) == [isStr |-> TRUE, chars |-> cs]
NotAStr == [isStr |-> FALSE, chars |-> <<>>]

\* The raw names callers pass.
RawNames ==
  { Str(<<"a">>), Str(<<"A">>), Str(<<Space, "a", Space>>),
    Str(<<"b">>), Str(<<"B">>),
    Str(<<>>), Str(<<Space, Space>>), NotAStr }

\* ------------------------------------------------------------ table codec
\* A JSON value is [k, n]: an integer, a numeric string, null, NaN or
\* Infinity (n is meaningful for the first two).
JInt(n) == [k |-> "int", n |-> n]
JNumStr(n) == [k |-> "numstr", n |-> n]
JNull == [k |-> "null", n |-> 0]
JNaN == [k |-> "nan", n |-> 0]
JInf == [k |-> "inf", n |-> 0]

\* int(raw_total): [st, n] with st "ok", "skip" (TypeError or ValueError,
\* which _normalize_data catches) or "raise" (OverflowError, which it
\* does not).
IntOf(v) ==
  CASE v.k = "int" -> [st |-> "ok", n |-> v.n]
    [] v.k = "numstr" -> [st |-> "ok", n |-> v.n]
    [] v.k = "inf" -> [st |-> "raise", n |-> 0]
    [] OTHER -> [st |-> "skip", n |-> 0]

Max(a, b) == IF a >= b THEN a ELSE b

EmptyTable == [x \in {} |-> 0]

\* dict.get(key, 0)
Get(t, key) == IF key \in DOMAIN t THEN t[key] ELSE 0

\* t with t[key] = v
Put(t, key, v) == [x \in DOMAIN t \cup {key} |-> IF x = key THEN v ELSE t[x]]

\* max(0, int(raw_total)): a stored total is never negative.
NonNegativeKept(total) == total

NonNegative(total) == Max(0, total)

\* The loop of _normalize_data over the items not yet visited; the result
\* is [raised, t].
RECURSIVE NormalizeLoop(_, _, _)
NormalizeLoop(data, todo, normalized) ==
  IF todo = {} THEN [raised |-> FALSE, t |-> normalized]
  ELSE LET raw_name == CHOOSE x \in todo : TRUE
           name == normalize_username(Str(raw_name))
           total == IntOf(data[raw_name])
       IN IF name = <<>> THEN NormalizeLoop(data, todo \ {raw_name}, normalized)
          ELSE IF total.st = "skip"
            THEN NormalizeLoop(data, todo \ {raw_name}, normalized)
          ELSE IF total.st = "raise"
            THEN [raised |-> TRUE, t |-> EmptyTable]
          ELSE NormalizeLoop(data, todo \ {raw_name},
                 Put(normalized, name,
                     Get(normalized, name) + NonNegative(total.n)))

\* A JSON document is [kind, d]: an object (d maps raw keys to values), or
\* another well-formed value such as a list, or text that is not JSON.
JObject(d) == [kind |-> "object", d |-> d]
JList == [kind |-> "list", d |-> EmptyTable]
JGarbage == [kind |-> "garbage", d |-> EmptyTable]

_normalize_data(doc) ==
  IF doc.kind # "object" THEN [raised |-> FALSE, t |-> EmptyTable]
  ELSE NormalizeLoop(doc.d, DOMAIN doc.d, EmptyTable)

\* json.dump of a table: every key is a string and every total an integer.
Encode(t) == JObject([x \in DOMAIN t |-> JInt(t[x])])

\* ------------------------------------------------------------------ state
VARIABLES
  fcntl,            \* TRUE when the fcntl module was imported
  inodes,           \* inode number -> [doc, done]; done = FALSE: truncated text
  dataIno,          \* the inode DATA_FILE names, 0 when the file is missing
  tmpNames,         \* the inodes that temporary names of the data directory name
  flocked,          \* the sessions holding LOCK_EX on LOCK_FILE
  pc,               \* where each session is in its call
  op,               \* "ensure", "update" or "read"
  username,         \* the normalized name of the call
  delta,            \* argument delta
  absolute_total,   \* argument absolute_total: [some, v], some = FALSE for None
  user_data,        \* the table of the call
  fh,               \* the inode load_data has open, 0 for none
  tmp,              \* the inode of the call's NamedTemporaryFile, 0 for none
  temp_file_path,   \* TRUE once save_data assigned tmp.name to it
  saved,            \* what save_data returned: "none" (not called), "ok", "fail"
  raised,           \* TRUE when an exception is leaving the call
  ret,              \* the value the last call returned
  ncalls,           \* calls started so far
  committed,        \* history: the last content a save_data that returned True
                    \* installed (the initial content before that)
  seen,             \* history: the contents that were committed while the
                    \* session's load_data was running
  orig,             \* history: the initial content
  tracing,          \* TRUE when completed calls are recorded in hist
  hist              \* history: the completed calls, oldest first

fsVars == <<inodes, dataIno, tmpNames>>
argVars == <<op, username, delta, absolute_total>>
saveVars == <<tmp, temp_file_path, saved>>
histVars == <<committed, seen, orig, tracing, hist>>
vars == <<fcntl, fsVars, flocked, pc, argVars, user_data, fh, saveVars, raised,
          ret, ncalls, histVars>>

\* ------------------------------------------------------------ file system
Content(doc, done) == [doc |-> doc, done |-> done]

\* What open() finds when the file does not exist.
Missing == [doc |-> JGarbage, done |-> FALSE]

NoInodes == [i \in {} |-> Missing]

\* The content DATA_FILE names.
DataContent == IF dataIno = 0 THEN Missing ELSE inodes[dataIno]

\* The smallest inode number that is free.
FreshIno(ino) == CHOOSE i \in 1..(Cardinality(DOMAIN ino) + 1) :
                   /\ i \notin DOMAIN ino
                   /\ \A j \in 1..(i - 1) : j \in DOMAIN ino

\* An inode lives while a name or an open file refers to it (a temporary
\* file is open only while it has its name).
Reclaim(ino, refs) == [i \in (DOMAIN ino) \cap refs |-> ino[i]]

Refs(data, names, handles) ==
  ({data} \cup names \cup {handles[p] : p \in Procs}) \ {0}

\* json.load followed by _normalize_data on one content: [raised, t].
\* Truncated or malformed text raises JSONDecodeError, which load_data
\* turns into {}.
Decode(content) ==
  IF ~content.done \/ content.doc.kind = "garbage"
    THEN [raised |-> FALSE, t |-> EmptyTable]
    ELSE _normalize_data(content.doc)

\* What load_data returns when nothing is written meanwhile.
DurableTable == Decode(DataContent)

\* ------------------------------------------------------------- the values
NoAbs == [some |-> FALSE, v |-> 0]
Abs(v) == [some |-> TRUE, v |-> v]

RNone == [k |-> "None", n |-> 0]
RTrue == [k |-> "True", n |-> 0]
RFalse == [k |-> "False", n |-> 0]
RInt(n) == [k |-> "int", n |-> n]
RRaised == [k |-> "raised", n |-> 0]
RPending == [k |-> "pending", n |-> 0]

EnsureCall == [op |-> "ensure", delta |-> 0, abs |-> NoAbs]
ReadCall == [op |-> "read", delta |-> 0, abs |-> NoAbs]
AddCall(d) == [op |-> "update", delta |-> d, abs |-> NoAbs]
SetCall(v) == [op |-> "update", delta |-> 0, abs |-> Abs(v)]

\* The calls of the concurrent sessions: the login, the page's read, an
\* addition, a subtraction and an absolute total below zero.
CallKinds == {EnsureCall, ReadCall, AddCall(10), AddCall(-5), SetCall(-3)}

\* The calls of the serial session.
SerialKinds == {EnsureCall, ReadCall, AddCall(10), AddCall(-5), SetCall(-3), SetCall(7)}

\* The names of the serial session: one account under three spellings, and
\* another account.
AB == <<"a", Space, "b">>

SerialNames ==
  { Str(<<"a", Space, Space, "B">>), Str(<<Space, "A", Space, "b">>), Str(AB),
    Str(<<"a">>) }

\* One completed call: what was asked, what it returned, and what load_data
\* would return right after it.
Entry(o, key, d, a, r) ==
  [op |-> o, key |-> key, delta |-> d, abs |-> a, ret |-> r, after |-> DurableTable]

\* hist after session p's call returned r.
Recorded(p, r) ==
  IF tracing
    THEN Append(hist, Entry(op[p], username[p], delta[p], absolute_total[p], r))
    ELSE hist

\* ------------------------------------------------------------------- Init
A == <<"a">>
B == <<"b">>

WellFormed == JObject((A :> JInt(5)) @@ (AB :> JInt(2)))
Legacy == JObject((<<"A">> :> JInt(10)) @@ (A :> JInt(5)) @@ (B :> JInt(-5)))
Overflowing == JObject((A :> JInf))

\* The contents the data file may start with; the first stands for no file.
InitContents ==
  { Missing, Content(WellFormed, TRUE), Content(Legacy, TRUE),
    Content(Overflowing, TRUE), Content(WellFormed, FALSE) }

InitWith(content, lockable, trace) ==
  /\ fcntl = lockable
  /\ inodes = IF content = Missing THEN NoInodes ELSE (1 :> content)
  /\ dataIno = IF content = Missing THEN 0 ELSE 1
  /\ tmpNames = {}
  /\ flocked = {}
  /\ pc = [p \in Procs |-> "idle"]
  /\ op = [p \in Procs |-> "read"]
  /\ username = [p \in Procs |-> <<>>]
  /\ delta = [p \in Procs |-> 0]
  /\ absolute_total = [p \in Procs |-> NoAbs]
  /\ user_data = [p \in Procs |-> EmptyTable]
  /\ fh = [p \in Procs |-> 0]
  /\ tmp = [p \in Procs |-> 0]
  /\ temp_file_path = [p \in Procs |-> FALSE]
  /\ saved = [p \in Procs |-> "none"]
  /\ raised = [p \in Procs |-> FALSE]
  /\ ret = [p \in Procs |-> RPending]
  /\ ncalls = 0
  /\ committed = content
  /\ seen = [p \in Procs |-> {}]
  /\ orig = content
  /\ tracing = trace
  /\ hist = <<>>

Init == \E content \in InitContents, lockable \in BOOLEAN :
          InitWith(content, lockable, FALSE)

\* One session, its completed calls recorded.
InitSerial == \E content \in InitContents, lockable \in BOOLEAN :
                InitWith(content, lockable, TRUE)

\* ---------------------------------------------------------------- actions
\* "if not username: return" of ensure_user_exists and update_user_total;
\* the read of the page has no such test.
RejectedNever(o, name) == FALSE

Rejected(o, name) == o # "read" /\ name = <<>>

\* A session starts a call: the caller's normalize-and-reject prologue of
\* ensure_user_exists and update_user_total, or the read of the counter page.
Begin(p, raw, c) ==
  /\ pc[p] = "idle"
  /\ LET name == normalize_username(raw)
         reject == Rejected(c.op, name)
         r == IF c.op = "ensure" THEN RFalse ELSE RNone
     IN /\ op' = [op EXCEPT ![p] = c.op]
        /\ username' = [username EXCEPT ![p] = name]
        /\ delta' = [delta EXCEPT ![p] = c.delta]
        /\ absolute_total' = [absolute_total EXCEPT ![p] = c.abs]
        /\ pc' = [pc EXCEPT ![p] = IF reject THEN "idle"
                                   ELSE IF c.op = "read" THEN "open" ELSE "lock"]
        /\ ret' = [ret EXCEPT ![p] = IF reject THEN r ELSE RPending]
        /\ hist' = IF reject /\ tracing
                     THEN Append(hist, Entry(c.op, name, c.delta, c.abs, r))
                     ELSE hist
  /\ UNCHANGED <<fcntl, fsVars, flocked, user_data, fh, saveVars, raised,
                 committed, seen, orig, tracing>>

\* A call counted against the budget of calls.
Start(p, raw, c) ==
  /\ Begin(p, raw, c)
  /\ ncalls' = ncalls + 1

Call(p) ==
  /\ ncalls < MaxCalls
  /\ \E raw \in RawNames, c \in CallKinds : Start(p, raw, c)

\* fcntl.flock(lock_handle, LOCK_EX) returns once no other open file holds
\* the lock.
FlockShared(p) == TRUE

FlockGranted(p) == flocked \ {p} = {}

\* The serial session starts a call.
SerialCall(p) ==
  /\ ncalls < MaxSeq
  /\ \E raw \in SerialNames, c \in SerialKinds : Start(p, raw, c)

\* The +10 button in one session and the +50 button in the other, each
\* pressed once, under any spellings of the same name.
RaceCall(p) ==
  /\ ret[p] = RPending
  /\ \E raw \in {r \in RawNames : normalize_username(r) = A} :
       Start(p, raw, IF p = "s1" THEN AddCall(10) ELSE AddCall(50))

\* Entering file_lock.
Acquire(p) ==
  /\ pc[p] = "lock"
  /\ IF fcntl
       THEN FlockGranted(p) /\ flocked' = flocked \cup {p}
       ELSE flocked' = flocked
  /\ pc' = [pc EXCEPT ![p] = "open"]
  /\ UNCHANGED <<fcntl, fsVars, argVars, user_data, fh, saveVars, raised, ret,
                 ncalls, histVars>>

\* load_data: os.path.exists and open.
Open(p) ==
  /\ pc[p] = "open"
  /\ seen' = [seen EXCEPT ![p] = {committed}]
  /\ IF dataIno = 0
       THEN /\ user_data' = [user_data EXCEPT ![p] = EmptyTable]
            /\ pc' = [pc EXCEPT ![p] = "loaded"]
            /\ fh' = fh
       ELSE /\ fh' = [fh EXCEPT ![p] = dataIno]
            /\ pc' = [pc EXCEPT ![p] = "read"]
            /\ user_data' = user_data
  /\ UNCHANGED <<fcntl, fsVars, flocked, argVars, saveVars, raised, ret, ncalls,
                 committed, orig, tracing, hist>>

\* load_data: json.load and _normalize_data on the open file, which is then
\* closed. An exception load_data does not catch leaves the call.
Read(p) ==
  /\ pc[p] = "read"
  /\ \E r \in {Decode(inodes[fh[p]])} :
     LET leaves == r.raised /\ op[p] = "read"
     IN /\ user_data' = [user_data EXCEPT ![p] = r.t]
        /\ raised' = [raised EXCEPT ![p] = r.raised]
        /\ pc' = [pc EXCEPT ![p] = IF leaves THEN "idle"
                                   ELSE IF r.raised THEN "unlock" ELSE "loaded"]
        /\ ret' = [ret EXCEPT ![p] = IF leaves THEN RRaised ELSE @]
        /\ hist' = IF leaves THEN Recorded(p, RRaised) ELSE hist
        /\ seen' = [seen EXCEPT ![p] = IF r.raised THEN {} ELSE @]
  /\ fh' = [fh EXCEPT ![p] = 0]
  /\ inodes' = Reclaim(inodes, Refs(dataIno, tmpNames, fh'))
  /\ UNCHANGED <<fcntl, dataIno, tmpNames, flocked, argVars, saveVars, ncalls,
                 committed, orig, tracing>>

\* A read that stores the default it returns (setdefault and save).
ReadBodyCreates(p) ==
  /\ pc[p] = "loaded" /\ op[p] = "read"
  /\ pc' = [pc EXCEPT ![p] = "create"]
  /\ user_data' = [user_data EXCEPT
                     ![p] = Put(@, username[p], Get(@, username[p]))]
  /\ seen' = [seen EXCEPT ![p] = {}]
  /\ UNCHANGED <<fcntl, fsVars, flocked, argVars, fh, saveVars, raised, ret,
                 ncalls, committed, orig, tracing, hist>>

\* The counter page: load_data().get(username, 0).
ReadBody(p) ==
  /\ pc[p] = "loaded" /\ op[p] = "read"
  /\ ret' = [ret EXCEPT ![p] = RInt(Get(user_data[p], username[p]))]
  /\ hist' = Recorded(p, ret'[p])
  /\ pc' = [pc EXCEPT ![p] = "idle"]
  /\ user_data' = [user_data EXCEPT ![p] = EmptyTable]
  /\ seen' = [seen EXCEPT ![p] = {}]
  /\ UNCHANGED <<fcntl, fsVars, flocked, argVars, fh, saveVars, raised, ncalls,
                 committed, orig, tracing>>

\* ensure_user_exists after load_data: an existing user returns True at
\* once, a new one is inserted with total 0 and saved.
EnsureOverwrite(p) == FALSE

EnsureFound(p) == username[p] \in DOMAIN user_data[p]

EnsureBody(p) ==
  /\ pc[p] = "loaded" /\ op[p] = "ensure"
  /\ IF EnsureFound(p)
       THEN /\ pc' = [pc EXCEPT ![p] = "unlock"]
            /\ user_data' = user_data
       ELSE /\ pc' = [pc EXCEPT ![p] = "create"]
            /\ user_data' = [user_data EXCEPT ![p] = Put(@, username[p], 0)]
  /\ seen' = [seen EXCEPT ![p] = {}]
  /\ UNCHANGED <<fcntl, fsVars, flocked, argVars, fh, saveVars, raised, ret,
                 ncalls, committed, orig, tracing, hist>>

\* update_user_total: the total to store before it is clamped.
NextTotalAdds(current_total, d, a) == current_total + (IF a.some THEN a.v ELSE d)

NextTotal(current_total, d, a) == IF ~a.some THEN current_total + d ELSE a.v

\* update_user_total: max(0, next_total).
ClampNone(next_total) == next_total

Clamp(next_total) == Max(0, next_total)

UpdateBody(p) ==
  /\ pc[p] = "loaded" /\ op[p] = "update"
  /\ LET current_total == Get(user_data[p], username[p])
         next_total == NextTotal(current_total, delta[p], absolute_total[p])
     IN user_data' = [user_data EXCEPT ![p] = Put(@, username[p], Clamp(next_total))]
  /\ pc' = [pc EXCEPT ![p] = "create"]
  /\ seen' = [seen EXCEPT ![p] = {}]
  /\ UNCHANGED <<fcntl, fsVars, flocked, argVars, fh, saveVars, raised, ret,
                 ncalls, committed, orig, tracing, hist>>

\* save_data: what the call writes, _normalize_data of the table it was given.
SafeData(p) == _normalize_data(Encode(user_data[p])).t

\* save_data has failed: the except clause has run and False is returned.
Failed(p, names) ==
  /\ tmpNames' = names
  /\ tmp' = tmp
  /\ temp_file_path' = [temp_file_path EXCEPT ![p] = FALSE]
  /\ saved' = [saved EXCEPT ![p] = "fail"]
  /\ pc' = [pc EXCEPT ![p] = "unlock"]

\* The except clause of save_data: the names left in the directory.
Cleanup(p) == IF temp_file_path[p] THEN tmpNames \ {tmp[p]} ELSE tmpNames

\* A writer that opens DATA_FILE itself for writing instead of a temporary
\* file.
SaveCreateInPlace(p) ==
  /\ pc[p] = "create"
  /\ LET ino == IF dataIno = 0 THEN FreshIno(inodes) ELSE dataIno
     IN /\ dataIno' = ino
        /\ tmp' = [tmp EXCEPT ![p] = ino]
        /\ inodes' = [i \in DOMAIN inodes \cup {ino} |->
                        IF i = ino THEN Missing ELSE inodes[i]]
  /\ pc' = [pc EXCEPT ![p] = "dump"]
  /\ UNCHANGED <<fcntl, tmpNames, flocked, argVars, user_data, fh, temp_file_path,
                 saved, raised, ret, ncalls, histVars>>

\* save_data: os.makedirs and tempfile.NamedTemporaryFile create an empty
\* file under a new name of the data directory, or fail.
SaveCreate(p) ==
  /\ pc[p] = "create"
  /\ \E ok \in BOOLEAN :
       IF ok
         THEN LET ino == FreshIno(inodes)
              IN /\ inodes' = [i \in DOMAIN inodes \cup {ino} |->
                                 IF i = ino THEN Missing ELSE inodes[i]]
                 /\ tmpNames' = tmpNames \cup {ino}
                 /\ tmp' = [tmp EXCEPT ![p] = ino]
                 /\ pc' = [pc EXCEPT ![p] = "dump"]
                 /\ UNCHANGED <<temp_file_path, saved>>
         ELSE /\ Failed(p, Cleanup(p))
              /\ inodes' = inodes
  /\ UNCHANGED <<fcntl, dataIno, flocked, argVars, user_data, fh, raised, ret,
                 ncalls, histVars>>

\* save_data: json.dump into the temporary file, then temp_file_path is
\* assigned. The text is complete on disk only once the file is closed. An
\* exception of json.dump leaves the with block before the assignment, with
\* nothing of the text on disk.
SaveDump(p) ==
  /\ pc[p] = "dump"
  /\ \E ok \in BOOLEAN :
       IF ok
         THEN /\ inodes' = [inodes EXCEPT
                             ![tmp[p]] = Content(Encode(SafeData(p)), FALSE)]
              /\ temp_file_path' = [temp_file_path EXCEPT ![p] = TRUE]
              /\ pc' = [pc EXCEPT ![p] = "close"]
              /\ UNCHANGED <<tmpNames, tmp, saved>>
         ELSE /\ Failed(p, Cleanup(p))
              /\ inodes' = Reclaim(inodes, Refs(dataIno, tmpNames', fh))
  /\ UNCHANGED <<fcntl, dataIno, flocked, argVars, user_data, fh, raised, ret,
                 ncalls, histVars>>

\* save_data: leaving the with block closes the temporary file, which
\* flushes the text, or fails.
SaveClose(p) ==
  /\ pc[p] = "close"
  /\ \E ok \in BOOLEAN :
       IF ok
         THEN /\ inodes' = [inodes EXCEPT ![tmp[p]] = Content(@.doc, TRUE)]
              /\ pc' = [pc EXCEPT ![p] = "replace"]
              /\ UNCHANGED <<tmpNames, tmp, temp_file_path, saved>>
         ELSE /\ Failed(p, Cleanup(p))
              /\ inodes' = Reclaim(inodes, Refs(dataIno, tmpNames', fh))
  /\ UNCHANGED <<fcntl, dataIno, flocked, argVars, user_data, fh, raised, ret,
                 ncalls, histVars>>

\* save_data: os.replace(temp_file_path, DATA_FILE) renames the temporary
\* file onto the data file in one step, or fails.
SaveReplace(p) ==
  /\ pc[p] = "replace"
  /\ \E ok \in BOOLEAN :
       IF ok
         THEN /\ dataIno' = tmp[p]
              /\ tmpNames' = tmpNames \ {tmp[p]}
              /\ tmp' = tmp
              /\ temp_file_path' = [temp_file_path EXCEPT ![p] = FALSE]
              /\ saved' = [saved EXCEPT ![p] = "ok"]
              /\ pc' = [pc EXCEPT ![p] = "unlock"]
              /\ committed' = inodes[tmp[p]]
              /\ seen' = [q \in Procs |->
                            IF pc[q] = "read" THEN seen[q] \cup {committed'}
                                              ELSE seen[q]]
         ELSE /\ Failed(p, Cleanup(p))
              /\ UNCHANGED <<dataIno, committed, seen>>
  /\ inodes' = Reclaim(inodes, Refs(dataIno', tmpNames', fh))
  /\ UNCHANGED <<fcntl, flocked, argVars, user_data, fh, raised, ret, ncalls,
                 orig, tracing, hist>>

\* A return that reports the computed total whether or not it was saved.
ReturnedUnsaved(p) ==
  IF raised[p] THEN RRaised
  ELSE IF op[p] = "ensure" THEN RTrue
  ELSE RInt(user_data[p][username[p]])

\* What the call returns when it leaves file_lock.
Returned(p) ==
  IF raised[p] THEN RRaised
  ELSE IF op[p] = "ensure"
    THEN (IF saved[p] = "fail" THEN RFalse ELSE RTrue)
    ELSE (IF saved[p] = "ok" THEN RInt(user_data[p][username[p]]) ELSE RNone)

\* Leaving file_lock: the finally clause unlocks, and the call returns.
ReleaseKeep(p) == flocked

Release(p) == flocked \ {p}

Unlock(p) ==
  /\ pc[p] = "unlock"
  /\ flocked' = Release(p)
  /\ ret' = [ret EXCEPT ![p] = Returned(p)]
  /\ hist' = Recorded(p, Returned(p))
  /\ pc' = [pc EXCEPT ![p] = "idle"]
  /\ user_data' = [user_data EXCEPT ![p] = EmptyTable]
  /\ saved' = [saved EXCEPT ![p] = "none"]
  /\ raised' = [raised EXCEPT ![p] = FALSE]
  /\ tmp' = [tmp EXCEPT ![p] = 0]
  /\ UNCHANGED <<fcntl, fsVars, argVars, fh, temp_file_path, ncalls,
                 committed, seen, orig, tracing>>

\* ---------------------------------------------------------- specifications
Next ==
  \E p \in Procs :
    \/ Call(p)
    \/ Acquire(p)
    \/ Open(p)
    \/ Read(p)
    \/ ReadBody(p)
    \/ EnsureBody(p)
    \/ UpdateBody(p)
    \/ SaveCreate(p)
    \/ SaveDump(p)
    \/ SaveClose(p)
    \/ SaveReplace(p)
    \/ Unlock(p)

Spec == Init /\ [][Next]_vars

\* One session making calls one after the other.
NextSerial ==
  \E p \in {"s1"} :
    \/ SerialCall(p)
    \/ Acquire(p)
    \/ Open(p)
    \/ Read(p)
    \/ ReadBody(p)
    \/ EnsureBody(p)
    \/ UpdateBody(p)
    \/ SaveCreate(p)
    \/ SaveDump(p)
    \/ SaveClose(p)
    \/ SaveReplace(p)
    \/ Unlock(p)

SpecSerial == InitSerial /\ [][NextSerial]_vars

\* Two sessions each pressing one add button for the same user.
NextRace ==
  \E p \in Procs :
    \/ RaceCall(p)
    \/ Acquire(p)
    \/ Open(p)
    \/ Read(p)
    \/ UpdateBody(p)
    \/ SaveCreate(p)
    \/ SaveDump(p)
    \/ SaveClose(p)
    \/ SaveReplace(p)
    \/ Unlock(p)

SpecRace == Init /\ [][NextRace]_vars

\* ------------------------------------------------------------- the claims
\* The steps of a mutating call between entering and leaving file_lock.
CriticalPcs == {"open", "read", "loaded", "create", "dump", "close", "replace", "unlock"}
SavePcs == {"create", "dump", "close", "replace"}

InCritical(p) == op[p] # "read" /\ pc[p] \in CriticalPcs

\* Session p takes a step of its call.
Steps(p) == pc[p] # "idle" /\ pc'[p] # pc[p]

FailureValue(p) == IF op[p] = "ensure" THEN RFalse ELSE RNone

\* C2: with fcntl available, at most one session at a time is between
\* entering and leaving file_lock in ensure_user_exists or update_user_total.
C2_MutualExclusion ==
  fcntl => Cardinality({p \in Procs : InCritical(p)}) <= 1

\* One session is saving inside the lock while the other waits for the lock.
C2_Witness ==
  /\ fcntl
  /\ \E p, q \in Procs : p # q /\ pc[p] = "replace" /\ pc[q] = "lock"

\* C3: the table a load_data returns is the decoding of one complete
\* content that was the committed data file while the load ran: the one it
\* found at the start or one a save_data installed meanwhile.
C3_AtomicVisibility ==
  \A p \in Procs :
    pc[p] = "loaded" =>
      \E c \in seen[p] : Decode(c) = [raised |-> FALSE, t |-> user_data[p]]

\* A lock-free read finished while a save_data installed a different table
\* between its open and its read.
C3_Witness ==
  \E p \in Procs :
    /\ op[p] = "read" /\ pc[p] = "loaded"
    /\ \E c, d \in seen[p] : Decode(c).t # Decode(d).t

\* C4: no step of save_data other than a successful os.replace changes the
\* data file, so that a failed save leaves the previous content in place,
\* and the call whose save failed returns None (update_user_total) or False
\* (ensure_user_exists) and changes nothing on its way out.
C4_FailedWriteKeepsState ==
  [][\A p \in Procs :
       /\ (Steps(p) /\ pc[p] \in SavePcs /\ saved'[p] # "ok")
            => (dataIno' = dataIno /\ DataContent' = DataContent)
       /\ (Steps(p) /\ pc[p] = "unlock" /\ saved[p] = "fail")
            => (/\ ret'[p] = FailureValue(p)
                /\ dataIno' = dataIno /\ DataContent' = DataContent
                /\ DataContent = committed)]_vars

\* A save has failed over an existing complete data file, which still
\* holds the committed content.
C4_Witness ==
  \E p \in Procs :
    /\ pc[p] = "unlock" /\ saved[p] = "fail"
    /\ dataIno # 0 /\ DataContent.done /\ DataContent = committed

\* C5: once save_data has failed, the temporary file the call created is
\* no longer in the data directory.
C5_TempFileRemoved ==
  \A p \in Procs :
    (pc[p] = "unlock" /\ saved[p] = "fail") => tmp[p] \notin tmpNames

\* C9: ensure_user_exists with the key in the loaded table goes straight to
\* its return, which is True, and writes nothing; with the key absent it
\* saves the loaded table plus the key at total 0, and returns True when
\* the save succeeded and False when it failed.
C9_EnsureIdempotent ==
  [][\A p \in Procs :
       (Steps(p) /\ op[p] = "ensure") =>
         /\ (pc[p] = "loaded" /\ username[p] \in DOMAIN user_data[p])
              => (/\ pc'[p] = "unlock" /\ saved'[p] = "none"
                  /\ fsVars' = fsVars /\ committed' = committed)
         /\ (pc[p] = "loaded" /\ username[p] \notin DOMAIN user_data[p])
              => (/\ pc'[p] = "create"
                  /\ user_data'[p] = Put(user_data[p], username[p], 0))
         /\ (pc[p] = "unlock" /\ saved[p] = "none" /\ ~raised[p])
              => (/\ ret'[p] = RTrue
                  /\ fsVars' = fsVars /\ committed' = committed
                  /\ (fcntl => Get(DurableTable.t, username[p])
                                 = Get(user_data[p], username[p])))
         /\ (pc[p] = "replace" /\ saved'[p] = "ok")
              => (/\ username[p] \in DOMAIN DurableTable'.t
                  /\ DurableTable'.t[username[p]] = 0)
         /\ (pc[p] = "unlock" /\ saved[p] # "none")
              => ret'[p] = (IF saved[p] = "ok" THEN RTrue ELSE RFalse)]_vars

\* ensure_user_exists found a user with a positive total and is returning
\* without a save.
C9_Witness ==
  \E p \in Procs :
    /\ op[p] = "ensure" /\ pc[p] = "unlock" /\ saved[p] = "none" /\ ~raised[p]
    /\ Get(user_data[p], username[p]) > 0
    /\ DurableTable.t = user_data[p]

\* C10: a read takes no lock and changes neither the data file nor the
\* directory, and it returns 0 when no table committed while it ran has
\* the key.
C10_ReadNoEffect ==
  [][\A p \in Procs :
       (Steps(p) /\ op[p] = "read") =>
         /\ pc'[p] # "lock"
         /\ flocked' = flocked
         /\ dataIno' = dataIno /\ DataContent' = DataContent
         /\ tmpNames' = tmpNames /\ committed' = committed
         /\ (pc[p] = "loaded"
               /\ \A c \in seen[p] : username[p] \notin DOMAIN Decode(c).t)
              => (pc'[p] = "idle" /\ ret'[p] = RInt(0))]_vars

\* A read of a valid name the data file does not have has returned 0, and
\* the data file still does not have it.
C10_Witness ==
  \E p \in Procs :
    /\ op[p] = "read" /\ pc[p] = "idle" /\ ret[p] = RInt(0)
    /\ username[p] # <<>>
    /\ dataIno # 0 /\ DurableTable.t # EmptyTable
    /\ username[p] \notin DOMAIN DurableTable.t

\* ---- the race of two additions (SpecRace)
BothReturnedTotals == \A p \in Procs : pc[p] = "idle" /\ ret[p].k = "int"

\* C1: with fcntl available, once the +10 and the +50 on the same key have
\* both returned a total, whatever the interleaving, the data file holds
\* the initial total of the key plus 60.
C1_NoLostUpdate ==
  (fcntl /\ BothReturnedTotals)
    => Get(DurableTable.t, A) = Get(Decode(orig).t, A) + 60

\* Both additions have returned over a positive initial total, the later
\* one returning the sum.
C1_Witness ==
  /\ fcntl /\ BothReturnedTotals
  /\ Get(Decode(orig).t, A) > 0
  /\ Get(DurableTable.t, A) = Get(Decode(orig).t, A) + 60
  /\ \E p \in Procs : ret[p] = RInt(Get(Decode(orig).t, A) + 60)

\* ---- one session, call after call (SpecSerial)
Quiet == \A p \in Procs : pc[p] = "idle"

Succeeded(e) ==
  \/ e.op = "ensure" /\ e.ret = RTrue
  \/ e.op = "update" /\ e.ret.k = "int"

\* Every call so far was an addition to key k that returned a total.
OnlyAddsTo(k) ==
  /\ \A i \in 1..Len(hist) :
       /\ hist[i].op = "update" /\ hist[i].key = k
       /\ ~hist[i].abs.some /\ hist[i].ret.k = "int"

Fresh(k) == k \notin DOMAIN Decode(orig).t

RECURSIVE SumDeltas(_)
SumDeltas(h) == IF h = <<>> THEN 0 ELSE h[1].delta + SumDeltas(Tail(h))

\* Clamping after every addition, from total t on.
RECURSIVE ClampEach(_, _)
ClampEach(t, h) ==
  IF h = <<>> THEN t ELSE ClampEach(Max(0, t + h[1].delta), Tail(h))

\* No prefix of the additions sums below zero.
NeverBelowZero(h) == \A n \in 1..Len(h) : SumDeltas(SubSeq(h, 1, n)) >= 0

\* C6 as stated: after additions d1..dn to a fresh user the total is
\* max(0, d1 + ... + dn).
C6_SumThenClamp ==
  (Quiet /\ hist # <<>>) =>
    LET k == hist[1].key
    IN (Fresh(k) /\ OnlyAddsTo(k))
         => Get(DurableTable.t, k) = Max(0, SumDeltas(hist))

\* C6 amended: the total is clamped at zero after every addition, so after
\* d1..dn it is the result of t := max(0, t + di) from 0, which the last
\* call returned; it is max(0, d1 + ... + dn) when no prefix sums below zero.
C6_ClampEachStep ==
  (Quiet /\ hist # <<>>) =>
    LET k == hist[1].key
        total == Get(DurableTable.t, k)
    IN (Fresh(k) /\ OnlyAddsTo(k))
         => /\ total = ClampEach(0, hist)
            /\ hist[Len(hist)].ret = RInt(ClampEach(0, hist))
            /\ NeverBelowZero(hist) => total = Max(0, SumDeltas(hist))

\* A fresh user was taken below zero and then up again: the total is the
\* last addition, more than the sum.
C6_Witness ==
  /\ Quiet /\ Len(hist) >= 2
  /\ Fresh(hist[1].key) /\ OnlyAddsTo(hist[1].key)
  /\ ~NeverBelowZero(hist)
  /\ Get(DurableTable.t, hist[1].key) > Max(0, SumDeltas(hist))

IsSet(e) == e.op = "update" /\ e.abs.some /\ e.ret.k = "int"

\* C7: a read that directly follows a successful overwrite of the same key
\* with v returns max(0, v), whatever the total was before; a successful
\* overwrite that directly follows the same successful overwrite leaves
\* the table as the first one left it.
C7_AbsoluteOverwrite ==
  \A i \in 1..(Len(hist) - 1) :
    LET e == hist[i]
        f == hist[i + 1]
    IN (IsSet(e) /\ f.key = e.key) =>
         /\ f.op = "read" => f.ret = RInt(Max(0, e.abs.v))
         /\ (IsSet(f) /\ f.abs = e.abs) => f.after = e.after

\* A user with a positive total was overwritten with a negative value and
\* then read as 0.
C7_Witness ==
  /\ Len(hist) = 2
  /\ IsSet(hist[1]) /\ hist[1].abs.v < 0
  /\ Get(Decode(orig).t, hist[1].key) > 0
  /\ hist[2].op = "read" /\ hist[2].key = hist[1].key /\ hist[2].ret = RInt(0)

\* Two raw names are spellings of one account: the same words, compared
\* without case.
Words(raw) == LET w == Split(raw.chars) IN [i \in 1..Len(w) |-> Casefold(w[i])]

SameAccount(a, b) == a.isStr /\ b.isStr /\ Words(a) # <<>> /\ Words(a) = Words(b)

\* What the counter page shows for a raw name when load_data returns t.
ReadTotal(t, raw) == Get(t, normalize_username(raw))

\* The raw keys of the data file, and those among them that normalize as
\* the raw key rk does.
RawKeys ==
  IF DataContent.done /\ DataContent.doc.kind = "object"
    THEN DOMAIN DataContent.doc.d
    ELSE {}

Spellings(rk) ==
  {x \in RawKeys : normalize_username(Str(x)) = normalize_username(Str(rk))}

CalledFor(k) == \E i \in 1..Len(hist) : hist[i].op # "read" /\ hist[i].key = k

SucceededFor(k) ==
  \E i \in 1..Len(hist) : hist[i].key = k /\ Succeeded(hist[i])

\* C8 as stated: after any calls under spellings of one account, reads
\* under all its spellings agree and the table has exactly one entry for it.
C8_OneEntryAfterAnyCalls ==
  (Quiet /\ ~DurableTable.raised) =>
    LET t == DurableTable.t
    IN \A a, b \in SerialNames :
         (SameAccount(a, b) /\ CalledFor(normalize_username(a)))
           => /\ ReadTotal(t, a) = ReadTotal(t, b)
              /\ normalize_username(a) \in DOMAIN t

\* C8 amended: reads under all spellings of one account agree after any
\* calls; the table has its entry once one of the calls has succeeded, and a
\* file the store has written spells every account one way only.
C8_IdentityMerge ==
  (Quiet /\ ~DurableTable.raised) =>
    LET t == DurableTable.t
    IN /\ \A a, b \in SerialNames :
            SameAccount(a, b)
              => /\ ReadTotal(t, a) = ReadTotal(t, b)
                 /\ SucceededFor(normalize_username(a))
                      => normalize_username(a) \in DOMAIN t
       /\ committed # orig
            => \A rk \in RawKeys : Spellings(rk) = {rk}

\* An addition under one spelling has succeeded and every spelling of the
\* account reads its positive total.
C8_Witness ==
  /\ Quiet /\ Len(hist) = 1
  /\ hist[1].op = "update" /\ hist[1].key = AB /\ hist[1].ret.k = "int"
  /\ \A a \in SerialNames :
       SameAccount(a, Str(AB))
         => /\ ReadTotal(DurableTable.t, a) = hist[1].ret.n
            /\ ReadTotal(DurableTable.t, a) > 2

\* ------------------------------------------------------------------ C11
\* The session's call is a mutator whose name normalizes to the empty string.
InvalidCall(p) == op[p] # "read" /\ username[p] = <<>>

\* C11: a call of ensure_user_exists or update_user_total whose name
\* normalizes to the empty string (an empty string, white space only, or a
\* value that is not a string) returns False, respectively None, at once:
\* the session never waits for nor holds the lock, nothing is raised, and the
\* step that makes the call leaves the lock, the data file and the directory
\* as they were.
C11_InvalidNameRejected ==
  /\ [](\A p \in Procs :
          InvalidCall(p) =>
            /\ pc[p] = "idle"
            /\ p \notin flocked
            /\ ret[p] = FailureValue(p))
  /\ [][\A p \in Procs :
          (pc[p] = "idle" /\ ncalls' # ncalls /\ InvalidCall(p)')
            => /\ fsVars' = fsVars
               /\ flocked' = flocked
               /\ committed' = committed]_vars

C11_Witness ==
  /\ dataIno # 0
  /\ \E p \in Procs : InvalidCall(p) /\ op[p] = "ensure" /\ ret[p] = RFalse
  /\ \E p \in Procs : InvalidCall(p) /\ op[p] = "update" /\ ret[p] = RNone

\* ------------------------------------------------------------------ C12
\* A table as the store is meant to write it: a complete JSON object whose
\* keys are non-empty results of normalize_username and whose values are
\* integers that are not negative.
TableInvariant(content) ==
  /\ content.done
  /\ content.doc.kind = "object"
  /\ \A rk \in DOMAIN content.doc.d :
       /\ rk # <<>>
       /\ normalize_username(Str(rk)) = rk
       /\ content.doc.d[rk].k = "int"
       /\ content.doc.d[rk].n >= 0

\* C12: every table the store has written satisfies the table invariant,
\* whatever the arguments of the calls and whatever the file held before the
\* first write: the data file, once it differs from the initial file, and
\* every complete temporary file about to replace it.
C12_TableInvariant ==
  /\ (dataIno # 0 /\ DataContent # orig) => TableInvariant(DataContent)
  /\ \A p \in Procs :
       pc[p] = "replace" => TableInvariant(inodes[tmp[p]])

C12_Witness ==
  /\ orig = Content(Legacy, TRUE)
  /\ DataContent # orig
  /\ \E p \in Procs :
       /\ pc[p] = "idle" /\ op[p] = "update" /\ username[p] = B
       /\ (delta[p] < 0 \/ (absolute_total[p].some /\ absolute_total[p].v < 0))
       /\ ret[p] = RInt(0)

\* ------------------------------------------------------------------ C13
\* C13: the lock is held only by a session that is inside file_lock in
\* ensure_user_exists or update_user_total; a session whose call has ended,
\* by a successful persist, by a failed persist, by the early return of
\* ensure_user_exists or by a fault raised inside the block, holds it no
\* longer, so the lock is free whenever no mutating call is in progress.
C13_LockReleased ==
  /\ \A p \in flocked : InCritical(p)
  /\ (\A p \in Procs : pc[p] = "idle") => flocked = {}

C13_Witness ==
  /\ fcntl
  /\ flocked = {}
  /\ \E p \in Procs :
       /\ pc[p] = "idle" /\ op[p] = "ensure" /\ ret[p] = RTrue
       /\ DataContent = orig
  /\ \E p \in Procs :
       /\ pc[p] = "idle" /\ op[p] = "update" /\ username[p] # <<>>
       /\ ret[p] = RNone

\* ------------------------------------------------- the page of a session
\* The files in which a login found the user "a".
PollContents == {Content(WellFormed, TRUE), Content(Legacy, TRUE)}

\* Both sessions have logged in as "a" (ensure_user_exists returned True):
\* st.session_state.logged_in is set and current_user is username[p].
InitPoll == \E content \in PollContents, lockable \in BOOLEAN :
  /\ fcntl = lockable
  /\ inodes = (1 :> content)
  /\ dataIno = 1
  /\ tmpNames = {}
  /\ flocked = {}
  /\ pc = [p \in Procs |-> "idle"]
  /\ op = [p \in Procs |-> "ensure"]
  /\ username = [p \in Procs |-> A]
  /\ delta = [p \in Procs |-> 0]
  /\ absolute_total = [p \in Procs |-> NoAbs]
  /\ user_data = [p \in Procs |-> EmptyTable]
  /\ fh = [p \in Procs |-> 0]
  /\ tmp = [p \in Procs |-> 0]
  /\ temp_file_path = [p \in Procs |-> FALSE]
  /\ saved = [p \in Procs |-> "none"]
  /\ raised = [p \in Procs |-> FALSE]
  /\ ret = [p \in Procs |-> RTrue]
  /\ ncalls = 0
  /\ committed = content
  /\ seen = [p \in Procs |-> {}]
  /\ orig = content
  /\ tracing = FALSE
  /\ hist = <<>>

\* The buttons of the counter page: +10 and the confirmed reset.
PressKinds == {AddCall(10), SetCall(0)}

Press(p) ==
  /\ ncalls < MaxCalls
  /\ \E c \in PressKinds : Start(p, Str(username[p]), c)

\* run_auto_sync at the end of the counter page: the autorefresh timer, or
\* the sleep followed by st.rerun(), runs the script again, which reads the
\* table for the user; the page shows the last total (ret) until then.
run_auto_sync_never(p) == FALSE

run_auto_sync(p) ==
  /\ pc[p] = "idle"
  /\ pc' = [pc EXCEPT ![p] = "open"]
  /\ op' = [op EXCEPT ![p] = "read"]
  /\ delta' = [delta EXCEPT ![p] = 0]
  /\ absolute_total' = [absolute_total EXCEPT ![p] = NoAbs]
  /\ UNCHANGED <<fcntl, fsVars, flocked, username, user_data, fh, saveVars,
                 raised, ret, ncalls, histVars>>

\* The code of a started call or rerun of session p, step by step.
Executes(p) ==
  \/ Acquire(p)
  \/ Open(p)
  \/ Read(p)
  \/ ReadBody(p)
  \/ UpdateBody(p)
  \/ SaveCreate(p)
  \/ SaveDump(p)
  \/ SaveClose(p)
  \/ SaveReplace(p)
  \/ Unlock(p)

\* One device on which the user presses buttons, and a second device that
\* is left alone and only polls.
Writer == "s1"
Poller == "s2"

NextPoll ==
  \/ Press(Writer)
  \/ run_auto_sync(Poller)
  \/ \E p \in Procs : Executes(p)

\* Every session's script keeps running: the timer of run_auto_sync fires
\* and started code is executed; when the user presses a button is free.
SpecPoll ==
  /\ InitPoll
  /\ [][NextPoll]_vars
  /\ WF_vars(Executes(Writer))
  /\ WF_vars(run_auto_sync(Poller) \/ Executes(Poller))

\* ------------------------------------------------------------------ C14
\* The total the page of session p shows is the durable total of its user.
ShowsDurableTotal(p) == ret[p] = RInt(Get(DurableTable.t, username[p]))

\* C14: a logged-in session that is left alone reads the table again and
\* again; the total a poll returns is the user's total in a table that was
\* the committed file at or after the poll's open, so every write completed
\* before the poll started is reflected; and once the writes have stopped the
\* session shows the final durable total for ever.
C14_PollingConvergence ==
  /\ [][\A p \in Procs :
          (op[p] = "read" /\ pc[p] = "loaded" /\ pc'[p] = "idle")
            => \E c \in seen[p] :
                 ret'[p] = RInt(Get(Decode(c).t, username[p]))]_vars
  /\ []<>(op[Poller] = "read" /\ pc[Poller] = "loaded")
  /\ <>[]ShowsDurableTotal(Poller)

\* The polling session shows the total the other session's write produced.
C14_Witness ==
  /\ op[Poller] = "read" /\ pc[Poller] = "idle" /\ ShowsDurableTotal(Poller)
  /\ op[Writer] = "update" /\ pc[Writer] = "idle"
  /\ ret[Writer] = ret[Poller]
  /\ DataContent # orig

\* ------------------------------------------------------------------ C15
\* C15: without fcntl every operation still returns, and the +10 and the +50
\* of two sessions of the one process on the same key are both applied: once
\* both have returned a total the data file holds the initial total plus 60.
C15_DegradedNoLostUpdate ==
  (~fcntl /\ BothReturnedTotals)
    => Get(DurableTable.t, A) = Get(Decode(orig).t, A) + 60

\* ------------------------------------------------ decoding any data file
\* The raw keys of the files decoded: a key, another spelling of it, and a
\* key that is white space only.
DecodeKeys == {A, <<"A">>, <<Space>>}

\* The raw values: negative and positive integers, a numeric string, null,
\* NaN, and a number too large for a float (1e999, which json.load reads as
\* infinity).
DecodeValues == {JInt(-5), JInt(10), JNumStr(3), JNull, JNaN, JInf}

\* Every flat object over these keys and values.
DecodeObjects ==
  UNION { [keys -> DecodeValues] : keys \in SUBSET DecodeKeys }

\* A missing file, text that is not JSON, a JSON list, a truncated object,
\* and every flat object.
DecodeContents ==
  {Missing, Content(JGarbage, TRUE), Content(JList, TRUE),
   Content(WellFormed, FALSE)}
    \cup {Content(JObject(d), TRUE) : d \in DecodeObjects}

InitDecode == \E content \in DecodeContents, lockable \in BOOLEAN :
                InitWith(content, lockable, FALSE)

\* One operation of the store on the file, for the user "a".
DecodeCall(p) ==
  /\ ncalls = 0
  /\ \E c \in {EnsureCall, ReadCall, AddCall(10)} : Start(p, Str(A), c)

NextDecode ==
  \E p \in {"s1"} :
    \/ DecodeCall(p)
    \/ Acquire(p)
    \/ Open(p)
    \/ Read(p)
    \/ ReadBody(p)
    \/ EnsureBody(p)
    \/ UpdateBody(p)
    \/ SaveCreate(p)
    \/ SaveDump(p)
    \/ SaveClose(p)
    \/ SaveReplace(p)
    \/ Unlock(p)

SpecDecode == InitDecode /\ [][NextDecode]_vars

\* ------------------------------------------------------------------ C16
\* The file's text is not a JSON object.
NotAnObject(content) == ~content.done \/ content.doc.kind # "object"

\* C16: whatever the data file holds, load_data raises nothing and every
\* operation of the store returns a value; when the file is missing or its
\* text is not a JSON object the table loaded is empty.
C16_DecodeNeverFaults ==
  \A p \in Procs :
    /\ ~raised[p]
    /\ ret[p] # RRaised
    /\ (pc[p] = "loaded" /\ (orig = Missing \/ NotAnObject(orig)))
         => user_data[p] = EmptyTable

\* ------------------------------------------------------------------ C17
\* The reference semantics: a raw entry counts when its key normalizes to a
\* non-empty key and its value is an integer or a numeric string.
Coercible(v) == v.k \in {"int", "numstr"}

Counted(d) ==
  {rk \in DOMAIN d : normalize_username(Str(rk)) # <<>> /\ Coercible(d[rk])}

RECURSIVE SumOf(_, _)
SumOf(d, rks) ==
  IF rks = {} THEN 0
  ELSE LET rk == CHOOSE x \in rks : TRUE
       IN Max(0, d[rk].n) + SumOf(d, rks \ {rk})

Reference(d) ==
  [k \in {normalize_username(Str(rk)) : rk \in Counted(d)} |->
     SumOf(d, {rk \in Counted(d) : normalize_username(Str(rk)) = k})]

\* The load of session p's call has ended.
LoadEnded(p) == pc[p] = "loaded" \/ raised[p]

\* C17: the table decoded from a flat object maps every non-empty normalized
\* key to the sum of max(0, value) over the raw entries that normalize to it
\* and whose value is coercible to an integer; entries with an invalid key or
\* an uncoercible value are dropped, the others kept.
C17_DecodeReference ==
  \A p \in Procs :
    (LoadEnded(p) /\ ~NotAnObject(orig) /\ orig # Missing)
      => /\ ~raised[p]
         /\ user_data[p] = Reference(orig.doc.d)

\* What holds of the decoding when no value of the object is a number that
\* json.load reads as infinity.
Finite(d) == \A rk \in DOMAIN d : d[rk] # JInf

DecodeReferenceOnFinite ==
  \A p \in Procs :
    (LoadEnded(p) /\ ~NotAnObject(orig) /\ orig # Missing
       /\ Finite(orig.doc.d))
      => /\ ~raised[p]
         /\ user_data[p] = Reference(orig.doc.d)

\* ------------------------------------------------------------------ C18
\* Session p's call has returned success.
Done(p) ==
  /\ pc[p] = "idle"
  /\ \/ op[p] = "ensure" /\ ret[p] = RTrue
     \/ op[p] = "update" /\ ret[p].k = "int"

\* The effect of session p's one call on its key is in the data file.
EffectPresent(p) ==
  LET k == username[p]
      before == Get(Decode(orig).t, k)
      t == DurableTable.t
  IN /\ k \in DOMAIN t
     /\ op[p] = "ensure" => t[k] = before
     /\ op[p] = "update" =>
          /\ t[k] = Clamp(NextTotal(before, delta[p], absolute_total[p]))
          /\ ret[p] = RInt(t[k])

\* C18: with fcntl available, the os.replace of a mutating call on key k
\* leaves every other key of the decoded table and its total as they were;
\* and when two sessions have each made one successful mutating call, on two
\* different keys, both effects are in the data file, however the two calls
\* interleaved.
C18_NoCrossKeyLostUpdate ==
  /\ [][\A p \in Procs :
          (fcntl /\ pc[p] = "replace" /\ saved'[p] = "ok")
            => \A before \in {DurableTable.t}, after \in {DurableTable'.t} :
                 \A k \in (DOMAIN before \cup DOMAIN after) \ {username[p]} :
                   /\ k \in DOMAIN before
                   /\ k \in DOMAIN after
                   /\ after[k] = before[k]]_vars
  /\ []((/\ fcntl
         /\ ncalls = 2
         /\ \A p \in Procs : Done(p)
         /\ username["s1"] # username["s2"])
          => \A p \in Procs : EffectPresent(p))

\* Two additions on different keys have both returned, each made while the
\* other session could run.
C18_Witness ==
  /\ fcntl
  /\ ncalls = 2
  /\ \A p \in Procs : Done(p) /\ op[p] = "update"
  /\ username["s1"] = A /\ username["s2"] = B
  /\ delta["s1"] = 10 /\ delta["s2"] = 10
  /\ \A p \in Procs : EffectPresent(p)
  /\ Get(Decode(orig).t, A) = 5

\* ------------------------------------------------------------------ C19
\* Some session with a call in progress can take its next step.
CanStep ==
  ENABLED (\E p \in Procs :
             \/ Acquire(p)
             \/ Open(p)
             \/ Read(p)
             \/ ReadBody(p)
             \/ EnsureBody(p)
             \/ UpdateBody(p)
             \/ SaveCreate(p)
             \/ SaveDump(p)
             \/ SaveClose(p)
             \/ SaveReplace(p)
             \/ Unlock(p))

\* No state is a deadlock: while a call is in progress some session can step.
NoDeadlock == (\E p \in Procs : pc[p] # "idle") => CanStep

\* C19: with fcntl available, a call of ensure_user_exists or
\* update_user_total that has ended has returned its result or its failure
\* value, and no state in which a call is in progress is a deadlock.
C19_ReturnsResultOrFailure ==
  fcntl =>
    /\ \A p \in Procs :
         (op[p] # "read" /\ pc[p] = "idle")
           => ret[p] \in {RTrue, RFalse, RNone} \/ ret[p].k = "int"
    /\ NoDeadlock

\* ---------------------------------------------------- additions and polls
\* The calls that never lower a total: the login, +10 and +50.
MonoKinds == {EnsureCall, AddCall(10), AddCall(50)}

MonoCall(p) ==
  /\ ncalls < MaxCalls
  /\ \E c \in MonoKinds : Start(p, Str(username[p]), c)

\* Two devices of the same user, each pressing add buttons and polling.
NextMono ==
  \E p \in Procs :
    \/ MonoCall(p)
    \/ run_auto_sync(p)
    \/ EnsureBody(p)
    \/ Executes(p)

SpecMono == InitPoll /\ [][NextMono]_vars

\* ------------------------------------------------------------------ C20
\* C20: with fcntl available and only logins and additions of deltas >= 0
\* being made, no step lowers the durable total of a key, and the total a
\* poll returns to a session is not below the total the session showed
\* before (the one its previous poll or its own addition returned).
C20_MonotonicTotals ==
  [][fcntl =>
       /\ DataContent' # DataContent =>
            \A before \in {DurableTable.t}, after \in {DurableTable'.t} :
              \A k \in DOMAIN before : Get(after, k) >= before[k]
       /\ \A p \in Procs :
            (/\ op[p] = "read" /\ pc[p] = "loaded" /\ pc'[p] = "idle"
             /\ ret[p].k = "int")
              => ret'[p].k = "int" /\ ret'[p].n >= ret[p].n]_vars

\* After its own addition a session's poll returned the larger total that
\* the other session's addition produced.
C20_Witness ==
  \E p, q \in Procs :
    /\ p # q /\ fcntl
    /\ op[p] = "read" /\ pc[p] = "idle"
    /\ op[q] = "update" /\ pc[q] = "idle" /\ ret[q] = ret[p]
    /\ ret[p].k = "int"
    /\ ret[p].n = Get(Decode(orig).t, A) + 60

\* ---- termination (C19), under fair scheduling of every session's code
\* The steps of a started call, the body of ensure_user_exists included.
Proceeds(p) == Executes(p) \/ EnsureBody(p)

SpecLive == Init /\ [][Next]_vars /\ \A p \in Procs : WF_vars(Proceeds(p))

\* Every started call ends, by a return or by the fault of C16.
Terminates == \A p \in Procs : [](pc[p] # "idle" => <>(pc[p] = "idle"))

====
